---------------------------- MODULE Spec2Model ----------------------------
(***************************************************************************)
(* The frame capture session of RayTracingUBO/main.cpp: init() builds the  *)
(* shaders, programs and buffers, main() runs renderScene() in a loop that *)
(* reads every frame back and saves it, and finally hands the saved frames *)
(* to ffmpeg.                                                              *)
(*                                                                         *)
(* Numbers: floats are fixed-point.  Times and angles are in thousandths   *)
(* (milliseconds, milliradians, millidegrees), scene coordinates produced  *)
(* by renderScene are in thousandths, the mesh literals of init are in     *)
(* tenths.                                                                 *)
(***************************************************************************)
EXTENDS Integers, Sequences, FiniteSets, TLC

(***************************************************************************)
(* Bounds of the model.                                                    *)
(***************************************************************************)
\* int videoFPS = 60 and int videoSeconds = 10 in the source (lines 113-114);
\* the session is scaled down here, maxFrames stays their product.
videoFPS == 2
videoSeconds == 2
\* how many FreeImage_Save calls may fail in a directory that exists
MaxWriteFailures == 1

(***************************************************************************)
(* Program constants.                                                      *)
(***************************************************************************)
maxFrames == videoFPS * videoSeconds
initialWidth == 1280
initialHeight == 720
MeshCapacity == 12
DispatchGroups == 14
StartNumber == 1
StartNumberRange == 5
SizeofVec4 == 16
SizeofTriangle == 5 * SizeofVec4
SizeofMesh == 4 * 4 + MeshCapacity * SizeofTriangle
SizeofLight == 2 * SizeofVec4 + 4 * 4
SizeofMat4 == 4 * SizeofVec4
compToFragSize == SizeofTriangle * 14
lightToFragSize == SizeofLight * 2
matrixBufferSize == SizeofMat4 * 2
triangleBufferSize == SizeofMesh * 2

\* the sizes the window system may report to window_size_callback
WindowSizes == { <<1280, 720>>, <<1920, 1200>> }

\* the readings glfwGetTime() may return, in milliseconds
ClockReadings == {0, 1100, 2200}

\* the content of memory that was never assigned: some bit pattern, unknown
Indeterminate == "indeterminate"

(***************************************************************************)
(* sin and cos of <cmath>, fixed-point: argument in milliradians, result   *)
(* in thousandths (Bhaskara's approximation on centiradians).              *)
(***************************************************************************)
PiMilli == 3142

SinMilli(t) ==
    LET a == t % (2 * PiMilli)
        x == (a % PiMilli) \div 10
        h == PiMilli \div 10
        p == x * (h - x)
        v == (16000 * p) \div (5 * h * h - 4 * p)
    IN  IF a < PiMilli THEN v ELSE 0 - v

CosMilli(t) == SinMilli(t + PiMilli \div 2)

(***************************************************************************)
(* renderScene, lines 208-212: the two clocks and the one that is chosen.  *)
(***************************************************************************)
\* (float)totalFrame / videoFPS
totalTimeElapsedInVideo(frame) == (frame * 1000) \div videoFPS

\* (float)totalTime
totalTimeElapsedInProgram(clock) == clock

\* float time = totalTimeElapsedInVideo;
AnimationTimeFromProgram(frame, clock) == totalTimeElapsedInProgram(clock)

AnimationTime(frame, clock) == totalTimeElapsedInVideo(frame)

(***************************************************************************)
(* renderScene, lines 219-228: the two transforms.  A matrix built by      *)
(* translate, rotate about Y and uniform scale is kept as those three      *)
(* parameters.                                                             *)
(***************************************************************************)
Transforms(t) ==
    << [translate |-> <<0, 0, 0>>, rotateY |-> 0,
        scale |-> (SinMilli(t) + 6000) \div 3],
       [translate |-> <<2 * CosMilli(t), 1500, 2 * SinMilli(t)>>,
        rotateY |-> 0 - t,
        scale |-> (1000 + SinMilli(t)) \div 2] >>

(***************************************************************************)
(* renderScene, lines 244-268: the two lights.  junk1 and junk2 are never  *)
(* assigned: they are uploaded with whatever the stack held.               *)
(***************************************************************************)
Lights(t) ==
    << [pos |-> <<2 * SinMilli(t), 4000, 2 * CosMilli(t), 0>>,
        color |-> <<1000, 1000, 1000, 0>>,
        radius |-> 7000, brightness |-> 1000,  junk1 |-> Indeterminate, junk2 |-> Indeterminate],
       [pos |-> <<4 * CosMilli(t), 1000, 4000, 0>>,
        color |-> <<1000, 0, 0, 0>>,
        radius |-> 2000, brightness |-> 2000,  junk1 |-> Indeterminate, junk2 |-> Indeterminate] >>

\* a light record without its padding
LightFields(l) ==
    [pos |-> l.pos, color |-> l.color, radius |-> l.radius, brightness |-> l.brightness]

(***************************************************************************)
(* init, lines 416-501: the two meshes, coordinates in tenths.             *)
(***************************************************************************)
Mesh0Triangles ==
    << [a |-> <<-50, 0, 50, 10>>, b |-> <<-50, 0, -50, 10>>, c |-> <<50, 0, -50, 10>>, normal |-> <<0, 10, 0, 10>>, color |-> <<10, 10, 10, 10>>],
       [a |-> <<-50, 0, 50, 10>>, b |-> <<50, 0, -50, 10>>, c |-> <<50, 0, 50, 10>>, normal |-> <<0, 10, 0, 10>>, color |-> <<10, 10, 10, 10>>] >>

Mesh1Triangles ==
    << [a |-> <<-5, -5, -5, 10>>, b |-> <<5, -5, -5, 10>>, c |-> <<-5, 5, -5, 10>>, normal |-> <<0, 0, -10, 10>>, color |-> <<10, 5, 1, 10>>],
       [a |-> <<5, -5, -5, 10>>, b |-> <<5, 5, -5, 10>>, c |-> <<-5, 5, -5, 10>>, normal |-> <<0, 0, -10, 10>>, color |-> <<10, 5, 1, 10>>],
       [a |-> <<-5, -5, 5, 10>>, b |-> <<-5, 5, 5, 10>>, c |-> <<5, 5, 5, 10>>, normal |-> <<0, 0, 10, 10>>, color |-> <<10, 5, 1, 10>>],
       [a |-> <<-5, -5, 5, 10>>, b |-> <<5, 5, 5, 10>>, c |-> <<5, -5, 5, 10>>, normal |-> <<0, 0, 10, 10>>, color |-> <<10, 5, 1, 10>>],
       [a |-> <<5, -5, 5, 10>>, b |-> <<5, 5, 5, 10>>, c |-> <<5, 5, -5, 10>>, normal |-> <<10, 0, 0, 10>>, color |-> <<10, 5, 1, 10>>],
       [a |-> <<5, -5, 5, 10>>, b |-> <<5, 5, -5, 10>>, c |-> <<5, -5, -5, 10>>, normal |-> <<10, 0, 0, 10>>, color |-> <<10, 5, 1, 10>>],
       [a |-> <<-5, -5, -5, 10>>, b |-> <<-5, 5, -5, 10>>, c |-> <<-5, 5, 5, 10>>, normal |-> <<-10, 0, 0, 10>>, color |-> <<10, 5, 1, 10>>],
       [a |-> <<-5, -5, -5, 10>>, b |-> <<-5, 5, 5, 10>>, c |-> <<-5, -5, 5, 10>>, normal |-> <<-10, 0, 0, 10>>, color |-> <<10, 5, 1, 10>>],
       [a |-> <<-5, 5, 5, 10>>, b |-> <<-5, 5, -5, 10>>, c |-> <<5, 5, -5, 10>>, normal |-> <<0, 10, 0, 10>>, color |-> <<10, 5, 1, 10>>],
       [a |-> <<-5, 5, 5, 10>>, b |-> <<5, 5, -5, 10>>, c |-> <<5, 5, 5, 10>>, normal |-> <<0, 10, 0, 10>>, color |-> <<10, 5, 1, 10>>],
       [a |-> <<-5, -5, 5, 10>>, b |-> <<-5, -5, -5, 10>>, c |-> <<5, -5, -5, 10>>, normal |-> <<0, -10, 0, 10>>, color |-> <<10, 5, 1, 10>>],
       [a |-> <<-5, -5, 5, 10>>, b |-> <<5, -5, -5, 10>>, c |-> <<5, -5, 5, 10>>, normal |-> <<0, -10, 0, 10>>, color |-> <<10, 5, 1, 10>>] >>

\* a triangle of the local array that init never assigns
UnsetTriangle ==
    [a |-> Indeterminate, b |-> Indeterminate, c |-> Indeterminate,
     normal |-> Indeterminate, color |-> Indeterminate]

\* struct Mesh: numTriangles, three padding ints, triangles[12]
MakeMesh(n, tris) ==
    [numTriangles |-> n, junk1 |-> Indeterminate, junk2 |-> Indeterminate,
     junk3 |-> Indeterminate,
     triangles |-> [i \in 1 .. MeshCapacity |->
                        IF i <= Len(tris) THEN tris[i] ELSE UnsetTriangle]]

\* Mesh meshes[2] as init fills it
Meshes ==
    << MakeMesh(2, Mesh0Triangles), MakeMesh(12, Mesh1Triangles) >>

(***************************************************************************)
(* calcCameraRays, lines 124-158.  The rotations stay symbolic: a corner   *)
(* ray is the centre ray turned by a horizontal angle about v and then by  *)
(* a vertical angle about the turned u, angles in millidegrees.            *)
(***************************************************************************)
\* (float)width / height, in thousandths
AspectRatio(w, h) == (w * 1000) \div h

CameraRays(eye, center, up, fov, ratio) ==
    LET hHalf == (fov * ratio) \div 2
        vHalf == (fov * 1000) \div 2
        centerRay == << center[1] - eye[1], center[2] - eye[2], center[3] - eye[3] >>
    IN  [eye |-> eye,
         ray00 |-> [ray |-> centerRay, up |-> up, aboutV |-> 0 - hHalf, aboutU |-> vHalf],
         ray01 |-> [ray |-> centerRay, up |-> up, aboutV |-> 0 - hHalf, aboutU |-> 0 - vHalf],
         ray10 |-> [ray |-> centerRay, up |-> up, aboutV |-> hHalf, aboutU |-> vHalf],
         ray11 |-> [ray |-> centerRay, up |-> up, aboutV |-> hHalf, aboutU |-> 0 - vHalf]]


(***************************************************************************)
(* The OpenGL calls the program makes, as functions of the context state.  *)
(***************************************************************************)
ShaderNames == {"vertex_shader", "fragment_shader", "compute_shader"}
ProgramNames == {"draw_program", "transform_program"}

\* std::string readShader(fileName): the file's text, or "" when it cannot be read
readShader(fileOK) == IF fileOK THEN "source" ELSE ""

\* the line readShader writes when the file cannot be read (line 304)
ReadMessage(file, fileOK) ==
    IF fileOK THEN <<>> ELSE << [text |-> "Can't read file: ", about |-> file] >>

\* the lines createShader writes when the compile fails (line 350); nothing else
\* in the program writes anything
CompileMessage(shader, isCompiled) ==
    IF isCompiled THEN <<>>
    ELSE << [text |-> "The shader failed to compile with the error:",
             about |-> shader] >>

\* GLuint createShader(sourceCode, shaderType): a failed compile prints the log and
\* deletes the shader; the (then stale) name is returned all the same
createShader(sourceCode, isCompiled) ==
    [source |-> sourceCode, compiled |-> isCompiled, deleted |-> ~isCompiled]

\* glAttachShader of the given shaders and glLinkProgram: the link status (a
\* deleted shader cannot be attached, an empty source has no main to link)
glLinkProgram(attached, linkerOK) ==
    IF linkerOK /\ \A sh \in attached : sh.compiled /\ ~sh.deleted /\ sh.source # ""
    THEN "linked" ELSE "unlinked"

\* glUseProgram(p): the new current program (an unlinked p is an error, nothing changes)
glUseProgram(cur, progs, p) == IF progs[p] = "linked" THEN p ELSE cur

\* glGetUniformLocation(program, name): -1 unless the program is linked
glGetUniformLocation(progs, p, loc) == IF progs[p] = "linked" THEN loc ELSE -1

NoLocations == [eye_loc |-> 0, ray00 |-> 0, ray01 |-> 0, ray10 |-> 0, ray11 |-> 0]
NoCamera == [eye |-> <<>>, ray00 |-> <<>>, ray01 |-> <<>>, ray10 |-> <<>>, ray11 |-> <<>>]

\* the five glUniform3f calls of calcCameraRays: a location of -1 is ignored, no
\* current program is an error; otherwise the value lands in the current program
glUniformCamera(unis, cur, locs, cam) ==
    IF cur = "none" THEN unis
    ELSE [unis EXCEPT ![cur] =
            [f \in DOMAIN NoCamera |-> IF locs[IF f = "eye" THEN "eye_loc" ELSE f] = -1
                                       THEN unis[cur][f] ELSE cam[f]]]

\* glGenBuffers(1, &name): the next unused buffer name, with no data store yet
glGenBuffers(bufs) == Append(bufs, [size |-> 0, data |-> "none", uploads |-> 0])

\* glBufferData(GL_UNIFORM_BUFFER, size, data, usage): a new data store for the
\* buffer bound to the target (none bound: an error, nothing changes)
glBufferData(bufs, bound, size, data) ==
    IF bound = 0 THEN bufs
    ELSE [bufs EXCEPT ![bound] =
            [size |-> size, data |-> data, uploads |-> bufs[bound].uploads + 1]]

\* what the compute shader leaves in the buffer at binding 0: the triangles of
\* the buffer at binding 1 under the matrices of the buffer at binding 2
ComputeOutput(bufs, bindings, groups) ==
    [trianglesOf |-> bindings[2],
     matrices |-> IF bindings[3] = 0 THEN "none" ELSE bufs[bindings[3]].data,
     groups |-> groups]

\* glDrawArrays(GL_TRIANGLE_STRIP, 0, 4): the fragment shader runs, and reads the
\* uniforms and the bound buffers, only with the draw program current
glDrawArrays(cur) == cur = "draw_program"

\* glDispatchCompute(groups, 1, 1): runs only with a compute program current
glDispatchCompute(bufs, cur, bindings, groups) ==
    IF cur = "transform_program" /\ bindings[1] # 0
    THEN [bufs EXCEPT ![bindings[1]].data = ComputeOutput(bufs, bindings, groups)]
    ELSE bufs

(***************************************************************************)
(* ffmpeg -r R -start_number S -i exportedFrames/%d.png: the image2 reader *)
(* looks for the first file among S .. S+4 and reads on from there while   *)
(* the next number exists.                                                 *)
(***************************************************************************)
RECURSIVE RunFrom(_, _)
RunFrom(present, i) ==
    IF i \in present THEN <<i>> \o RunFrom(present, i + 1) ELSE <<>>

MuxRead(present, start) ==
    LET firsts == {i \in start .. start + StartNumberRange - 1 : i \in present}
    IN  IF firsts = {} THEN <<>>
        ELSE RunFrom(present, CHOOSE i \in firsts : \A k \in firsts : i <= k)

\* sprintf(command, "ffmpeg -r %d -start_number 1 -i exportedFrames/%%d.png ...", videoFPS)
MuxCommand == [rate |-> videoFPS, start |-> StartNumber]

(***************************************************************************)
(* The environment's choices.                                              *)
(***************************************************************************)
\* what goes wrong while init builds the shaders and programs (at most one thing)
SetupFaults ==
    {<<"none", "">>}
    \cup {<<"read", s>> : s \in ShaderNames}
    \cup {<<"compile", s>> : s \in ShaderNames}
    \cup {<<"link", p>> : p \in ProgramNames}

\* glfwGetTime(): monotonic, in milliseconds
NextTimes(last) ==
    {t \in ClockReadings : t >= last}

(***************************************************************************)
(* State.                                                                  *)
(***************************************************************************)
VARIABLES
    pc,             \* where main is
    totalFrame, tempFrame, dtime, timebase, totalTime, fps,   \* lines 104-109
    title,          \* the window title last set
    width, height,  \* lines 111-112
    viewport,       \* glViewport
    cameraPos,      \* line 98
    time,           \* renderScene's local
    shaders, programs, uniformLocs,
    console,        \* what the program has written to std::cout
    currentProgram, uniforms,
    buffers,        \* buffer name -> data store
    bufferNames,    \* compToFrag, matrixBuffer, triangleBuffer, lightToFrag
    boundUniform,   \* the buffer bound to GL_UNIFORM_BUFFER
    ssbo,           \* GL_SHADER_STORAGE_BUFFER binding points 0, 1, 2
    pixelsSize,     \* bytes allocated for pixels, 0 when there is no buffer
    dirOK,          \* exportedFrames exists
    files,          \* the numbers n with exportedFrames/n.png on disk
    saveCalls,      \* the numbers handed to FreeImage_Save, in order
    writeFailures,
    iterLog,        \* the GL calls of the current loop iteration
    muxRuns         \* the ffmpeg runs: command and frames read

fpsVars == <<tempFrame, dtime, timebase, totalTime, fps, title>>
winVars == <<width, height, viewport>>
shaderVars == <<shaders, programs, uniformLocs, console>>
glVars == <<currentProgram, uniforms, buffers, bufferNames, boundUniform, ssbo>>
ioVars == <<dirOK, files, saveCalls, writeFailures, muxRuns>>
vars == <<pc, totalFrame, cameraPos, time, pixelsSize, iterLog,
          fpsVars, winVars, shaderVars, glVars, ioVars>>

\* the state when main starts: the globals' initialisers, a window of width x height
Init ==
    /\ pc = "init_shaders"
    /\ totalFrame = 0 /\ tempFrame = 0
    /\ dtime = 0 /\ timebase = 0 /\ totalTime = 0 /\ fps = 0
    /\ title = [fps |-> 0, frame |-> 0, max |-> 0]
    /\ width = initialWidth /\ height = initialHeight
    /\ viewport = <<initialWidth, initialHeight>>
    /\ cameraPos = <<0, 0, 0>>
    /\ time = 0
    /\ shaders = [s \in ShaderNames |->
                      [source |-> "", compiled |-> FALSE, deleted |-> FALSE]]
    /\ programs = [p \in ProgramNames |-> "none"]
    /\ uniformLocs = NoLocations
    /\ console = <<>>
    /\ currentProgram = "none"
    /\ uniforms = [p \in ProgramNames |-> NoCamera]
    /\ buffers = <<>>
    /\ bufferNames = [compToFrag |-> 0, matrixBuffer |-> 0, triangleBuffer |-> 0,
                      lightToFrag |-> 0]
    /\ boundUniform = 0
    /\ ssbo = <<0, 0, 0>>
    /\ pixelsSize = 0
    /\ dirOK = FALSE
    /\ files = {}
    /\ saveCalls = <<>>
    /\ writeFailures = 0
    /\ iterLog = <<>>
    /\ muxRuns = <<>>

(***************************************************************************)
(* init(), lines 364-402: shaders, programs, uniform locations.  No result *)
(* of a read, a compile or a link is acted upon.                           *)
(***************************************************************************)
InitShaders(fault) ==
    LET source(s) == readShader(fault # <<"read", s>>)
        made == [s \in ShaderNames |-> createShader(source(s), fault # <<"compile", s>>)]
        progs == [draw_program |->
                      glLinkProgram({made["vertex_shader"], made["fragment_shader"]},
                                    fault # <<"link", "draw_program">>),
                  transform_program |->
                      glLinkProgram({made["compute_shader"]},
                                    fault # <<"link", "transform_program">>)]
    IN  /\ pc = "init_shaders"
        /\ shaders' = made
        /\ programs' = progs
        /\ console' = ReadMessage("vertex_shader", fault # <<"read", "vertex_shader">>)
                       \o ReadMessage("fragment_shader",
                                      fault # <<"read", "fragment_shader">>)
                       \o ReadMessage("compute_shader",
                                      fault # <<"read", "compute_shader">>)
                       \o CompileMessage("vertex_shader",
                                         fault # <<"compile", "vertex_shader">>)
                       \o CompileMessage("fragment_shader",
                                         fault # <<"compile", "fragment_shader">>)
                       \o CompileMessage("compute_shader",
                                         fault # <<"compile", "compute_shader">>)
        /\ currentProgram' = glUseProgram(currentProgram, progs, "draw_program")
        /\ uniformLocs' = [eye_loc |-> glGetUniformLocation(progs, "draw_program", 0),
                           ray00 |-> glGetUniformLocation(progs, "draw_program", 1),
                           ray01 |-> glGetUniformLocation(progs, "draw_program", 2),
                           ray10 |-> glGetUniformLocation(progs, "draw_program", 3),
                           ray11 |-> glGetUniformLocation(progs, "draw_program", 4)]
        /\ pc' = "init_buffers"
        /\ UNCHANGED <<totalFrame, cameraPos, time, pixelsSize, iterLog, fpsVars,
                       winVars, uniforms, buffers, bufferNames, boundUniform, ssbo,
                       ioVars>>

(***************************************************************************)
(* init(), lines 405-512: the four buffers.  The last glBufferData is      *)
(* given the buffer's name, lightToFrag, where the others give the size.   *)
(***************************************************************************)
InitBufferStores ==
    LET b1 == glGenBuffers(<<>>)
        compToFrag == Len(b1)
        s1 == glBufferData(b1, compToFrag, compToFragSize, "uninitialised")
        b2 == glGenBuffers(s1)
        matrixBuffer == Len(b2)
        s2 == glBufferData(b2, matrixBuffer, matrixBufferSize, "uninitialised")
        b3 == glGenBuffers(s2)
        triangleBuffer == Len(b3)
        s3 == glBufferData(b3, triangleBuffer, triangleBufferSize, Meshes)
        b4 == glGenBuffers(s3)
        lightToFrag == Len(b4)
        s4 == glBufferData(b4, lightToFrag, lightToFrag, "uninitialised")
    IN  [names |-> [compToFrag |-> compToFrag, matrixBuffer |-> matrixBuffer,
                    triangleBuffer |-> triangleBuffer, lightToFrag |-> lightToFrag],
         stores |-> s4]

InitBuffers ==
    /\ pc = "init_buffers"
    /\ buffers' = InitBufferStores.stores
    /\ bufferNames' = InitBufferStores.names
    /\ boundUniform' = 0
    /\ pc' = "alloc"
    /\ UNCHANGED <<totalFrame, cameraPos, time, pixelsSize, iterLog, fpsVars, winVars,
                   shaderVars, currentProgram, uniforms, ssbo, ioVars>>

(***************************************************************************)
(* main, lines 545-552: the pixel buffer and the output directory.         *)
(***************************************************************************)
\* new unsigned char[3 * width * height]
PixelBufferSize(w, h) == 3 * w * h

AllocPixels(dirExists) ==
    /\ pc = "alloc"
    /\ pixelsSize' = PixelBufferSize(width, height)
    /\ dirOK' = dirExists
    /\ pc' = "loop"
    /\ UNCHANGED <<totalFrame, cameraPos, time, iterLog, fpsVars, winVars, shaderVars,
                   glVars, files, saveCalls, writeFailures, muxRuns>>

(***************************************************************************)
(* main, line 557: while (totalFrame != maxFrames)                         *)
(***************************************************************************)
LoopCondition(frame) == frame # maxFrames

LoopTest ==
    /\ pc = "loop"
    /\ pc' = IF LoopCondition(totalFrame) THEN "render" ELSE "cleanup"
    /\ iterLog' = <<>>
    /\ UNCHANGED <<totalFrame, cameraPos, time, pixelsSize, fpsVars, winVars,
                   shaderVars, glVars, ioVars>>

(***************************************************************************)
(* renderScene, lines 165-212: the FPS counter, the camera position and    *)
(* the animation time.                                                     *)
(***************************************************************************)
RenderClock(now) ==
    /\ pc = "render"
    /\ dtime' = now
    /\ totalTime' = now
    /\ IF now - timebase > 1000
       THEN /\ fps' = tempFrame \div ((now - timebase) \div 1000)
            /\ timebase' = now
            /\ tempFrame' = 0
            /\ title' = [fps |-> fps', frame |-> totalFrame, max |-> maxFrames]
       ELSE UNCHANGED <<fps, timebase, tempFrame, title>>
    /\ cameraPos' = <<0, 8000, 8000>>
    /\ time' = AnimationTime(totalFrame, now)
    /\ pc' = "transform"
    /\ UNCHANGED <<totalFrame, pixelsSize, iterLog, winVars, shaderVars, glVars, ioVars>>

(***************************************************************************)
(* renderScene, lines 217-237: the transform pass.                         *)
(***************************************************************************)
\* the transform pass without its glDispatchCompute
TransformPassNoDispatch(cur, bufs, names, t) ==
    LET prog == glUseProgram(cur, programs, "transform_program")
        up == glBufferData(bufs, names.matrixBuffer, matrixBufferSize, Transforms(t))
        bind == <<names.compToFrag, names.triangleBuffer, names.matrixBuffer>>
    IN  [program |-> prog, bindings |-> bind, stores |-> up, calls |-> <<>>]

\* the transform pass with the triangle buffer bound for the upload
TransformPassWritesTriangles(cur, bufs, names, t) ==
    LET prog == glUseProgram(cur, programs, "transform_program")
        up == glBufferData(bufs, names.triangleBuffer, matrixBufferSize, Transforms(t))
        bind == <<names.compToFrag, names.triangleBuffer, names.matrixBuffer>>
    IN  [program |-> prog,
         bindings |-> bind,
         stores |-> glDispatchCompute(up, prog, bind, DispatchGroups),
         calls |-> << [op |-> "glDispatchCompute", groups |-> DispatchGroups,
                       program |-> prog, matrices |-> up[bind[3]].data] >>]

TransformPass(cur, bufs, names, t) ==
    LET prog == glUseProgram(cur, programs, "transform_program")
        up == glBufferData(bufs, names.matrixBuffer, matrixBufferSize, Transforms(t))
        bind == <<names.compToFrag, names.triangleBuffer, names.matrixBuffer>>
    IN  [program |-> prog,
         bindings |-> bind,
         stores |-> glDispatchCompute(up, prog, bind, DispatchGroups),
         calls |-> << [op |-> "glDispatchCompute", groups |-> DispatchGroups,
                       program |-> prog, matrices |-> up[bind[3]].data] >>]

RenderTransform ==
    LET r == TransformPass(currentProgram, buffers, bufferNames, time)
    IN  /\ pc = "transform"
        /\ currentProgram' = r.program
        /\ buffers' = r.stores
        /\ boundUniform' = 0
        /\ ssbo' = r.bindings
        /\ iterLog' = iterLog \o r.calls
        /\ pc' = "draw"
        /\ UNCHANGED <<totalFrame, cameraPos, time, pixelsSize, fpsVars, winVars,
                       shaderVars, uniforms, bufferNames, ioVars>>

(***************************************************************************)
(* renderScene, lines 242-287: the draw pass and the frame counters.       *)
(***************************************************************************)
\* the arguments of the calcCameraRays call of line 280
CameraInputs(eye, w, h) ==
    [eye |-> eye, center |-> <<0, 500, 0>>, up |-> <<0, 1000, 0>>, fov |-> 45,
     ratio |-> AspectRatio(w, h)]

\* the draw pass with calcCameraRays called before glUseProgram(draw_program)
DrawPassCameraBeforeUse(cur, bufs, names, unis, t, w, h) ==
    LET prog == glUseProgram(cur, programs, "draw_program")
        up == glBufferData(bufs, names.lightToFrag, lightToFragSize, Lights(t))
        bind == <<names.compToFrag, names.lightToFrag, ssbo[3]>>
        in == CameraInputs(cameraPos, w, h)
        cam == glUniformCamera(unis, cur, uniformLocs,
                               CameraRays(in.eye, in.center, in.up, in.fov, in.ratio))
    IN  [program |-> prog,
         bindings |-> bind,
         stores |-> up,
         uniforms |-> cam,
         calls |-> << [op |-> "glDrawArrays", program |-> prog, camera |-> in,
                       lights |-> up[bind[2]].data] >>]

DrawPass(cur, bufs, names, unis, t, w, h) ==
    LET prog == glUseProgram(cur, programs, "draw_program")
        up == glBufferData(bufs, names.lightToFrag, lightToFragSize, Lights(t))
        bind == <<names.compToFrag, names.lightToFrag, ssbo[3]>>
        in == CameraInputs(cameraPos, w, h)
        cam == glUniformCamera(unis, prog, uniformLocs,
                               CameraRays(in.eye, in.center, in.up, in.fov, in.ratio))
    IN  [program |-> prog,
         bindings |-> bind,
         stores |-> up,
         uniforms |-> cam,
         calls |-> << [op |-> "glDrawArrays", program |-> prog, camera |-> in,
                       lights |-> up[bind[2]].data] >>]

RenderDraw ==
    LET r == DrawPass(currentProgram, buffers, bufferNames, uniforms, time, width,
                      height)
    IN  /\ pc = "draw"
        /\ currentProgram' = r.program
        /\ buffers' = r.stores
        /\ boundUniform' = 0
        /\ ssbo' = r.bindings
        /\ uniforms' = r.uniforms
        /\ iterLog' = iterLog \o r.calls
        /\ tempFrame' = tempFrame + 1
        /\ totalFrame' = totalFrame + 1
        /\ pc' = "swap"
        /\ UNCHANGED <<cameraPos, time, pixelsSize, dtime, timebase, totalTime, fps,
                       title, winVars, shaderVars, bufferNames, ioVars>>

(***************************************************************************)
(* main, lines 564-567: glfwSwapBuffers, then glfwPollEvents, which calls  *)
(* window_size_callback for every size event that is pending.              *)
(***************************************************************************)
SwapBuffers ==
    /\ pc = "swap"
    /\ pc' = "poll"
    /\ UNCHANGED <<totalFrame, cameraPos, time, pixelsSize, iterLog, fpsVars, winVars,
                   shaderVars, glVars, ioVars>>

\* lines 515-520
window_size_callback(w, h) ==
    /\ pc = "poll"
    /\ <<w, h>> # <<width, height>>
    /\ width' = w
    /\ height' = h
    /\ viewport' = <<w, h>>
    /\ UNCHANGED <<pc, totalFrame, cameraPos, time, pixelsSize, iterLog, fpsVars,
                   shaderVars, glVars, ioVars>>

PollEventsReturn ==
    /\ pc = "poll"
    /\ pc' = "readback"
    /\ UNCHANGED <<totalFrame, cameraPos, time, pixelsSize, iterLog, fpsVars, winVars,
                   shaderVars, glVars, ioVars>>

(***************************************************************************)
(* main, line 571: glReadPixels(0, 0, width, height, ...) into pixels.     *)
(* Writing more bytes than pixels holds is undefined behaviour: the write  *)
(* goes unnoticed, or the process dies.                                    *)
(***************************************************************************)
\* bytes of a width x height image of packed 24-bit pixels
ImageBytes(w, h) == 3 * w * h

AccessOutcomes(bytes, size) == IF bytes <= size THEN {"ok"} ELSE {"ok", "crash"}

ReadPixels(outcome) ==
    /\ pc = "readback"
    /\ outcome \in AccessOutcomes(ImageBytes(width, height), pixelsSize)
    /\ iterLog' = Append(iterLog, [op |-> "glReadPixels", width |-> width,
                                   height |-> height])
    /\ pc' = IF outcome = "crash" THEN "crashed" ELSE "save"
    /\ UNCHANGED <<totalFrame, cameraPos, time, pixelsSize, fpsVars, winVars,
                   shaderVars, glVars, ioVars>>

(***************************************************************************)
(* main, lines 574-579: the file name, the conversion (which reads         *)
(* width x height pixels out of pixels) and the save, whose result is      *)
(* dropped.                                                                *)
(***************************************************************************)
\* the name a loop that saved before counting the frame would give
FrameFileNameZeroBased(frame) == frame - 1

\* sprintf(fileName, "exportedFrames/%d.png", totalFrame): the number in the name
FrameFileName(frame) == frame

SaveFrame(outcome, written) ==
    /\ pc = "save"
    /\ outcome \in AccessOutcomes(ImageBytes(width, height), pixelsSize)
    /\ written => dirOK
    /\ ~written => (~dirOK \/ writeFailures < MaxWriteFailures)
    /\ IF outcome = "crash"
       THEN /\ pc' = "crashed"
            /\ UNCHANGED ioVars
       ELSE /\ pc' = "loop"
            /\ saveCalls' = Append(saveCalls, FrameFileName(totalFrame))
            /\ files' = IF written THEN files \cup {FrameFileName(totalFrame)} ELSE files
            /\ writeFailures' = IF dirOK /\ ~written THEN writeFailures + 1
                                ELSE writeFailures
            /\ UNCHANGED <<dirOK, muxRuns>>
    /\ UNCHANGED <<totalFrame, cameraPos, time, pixelsSize, iterLog, fpsVars, winVars,
                   shaderVars, glVars>>

(***************************************************************************)
(* main, lines 583-589: cleanup.                                           *)
(***************************************************************************)
Cleanup ==
    /\ pc = "cleanup"
    /\ shaders' = [shaders EXCEPT !["vertex_shader"].deleted = TRUE,
                                  !["fragment_shader"].deleted = TRUE]
    /\ programs' = [programs EXCEPT !["draw_program"] = "deleted"]
    /\ currentProgram' = "none"
    /\ pixelsSize' = 0
    /\ pc' = "mux"
    /\ UNCHANGED <<totalFrame, cameraPos, time, iterLog, fpsVars, winVars, uniformLocs,
                   console, uniforms, buffers, bufferNames, boundUniform, ssbo, ioVars>>

(***************************************************************************)
(* main, lines 592-598: the ffmpeg command.                                *)
(***************************************************************************)
Mux ==
    /\ pc = "mux"
    /\ muxRuns' = Append(muxRuns, [rate |-> MuxCommand.rate, start |-> MuxCommand.start,
                                   frames |-> MuxRead(files, MuxCommand.start)])
    /\ pc' = "done"
    /\ UNCHANGED <<totalFrame, cameraPos, time, pixelsSize, iterLog, fpsVars, winVars,
                   shaderVars, glVars, dirOK, files, saveCalls, writeFailures>>

Next ==
    \/ \E fault \in SetupFaults : InitShaders(fault)
    \/ InitBuffers
    \/ \E dirExists \in BOOLEAN : AllocPixels(dirExists)
    \/ LoopTest
    \/ \E now \in NextTimes(dtime) : RenderClock(now)
    \/ RenderTransform
    \/ RenderDraw
    \/ SwapBuffers
    \/ \E s \in WindowSizes : window_size_callback(s[1], s[2])
    \/ PollEventsReturn
    \/ \E outcome \in {"ok", "crash"} : ReadPixels(outcome)
    \/ \E outcome \in {"ok", "crash"}, written \in BOOLEAN : SaveFrame(outcome, written)
    \/ Cleanup
    \/ Mux

Spec == Init /\ [][Next]_vars

(***************************************************************************)
(* Properties.                                                             *)
(***************************************************************************)
Range(q) == {q[i] : i \in DOMAIN q}

InitPcs == {"init_shaders", "init_buffers", "alloc"}
LoopPcs == {"loop", "render", "transform", "draw", "swap", "poll", "readback", "save"}
AfterLoopPcs == {"cleanup", "mux", "done"}

\* the frame index the current iteration renders: renderScene counts the frame
\* at its end
IterationFrame == IF pc \in {"render", "transform", "draw"} THEN totalFrame
                  ELSE totalFrame - 1

\* init has run and a shader came from an unreadable file or did not compile, or a
\* program did not link
BackendSetupFailed ==
    /\ pc # "init_shaders"
    /\ \/ \E s \in ShaderNames : shaders[s].source = "" \/ ~shaders[s].compiled
       \/ \E p \in ProgramNames : programs[p] = "unlinked"

\* C1: the loop ends only at frameIndex = maxFrames: 0 <= totalFrame <= maxFrames
\* always, and whenever main is past the loop, by leaving it or by the process
\* ending, totalFrame = maxFrames (no event ends the loop early).
C1_LoopEndsOnlyAtMaxFrames ==
    /\ totalFrame \in 0 .. maxFrames
    /\ pc \notin InitPcs \cup LoopPcs => totalFrame = maxFrames

C3_ReadbackBufferMatches ==
    pc = "readback" => pixelsSize = ImageBytes(width, height)

\* C4: whatever the wall clock returned, the transforms in the transform buffer and
\* the light records (padding aside) in the light buffer are those of the video time
\* of the frame index being rendered.
C4_ContentFromVideoTime ==
    LET vt == totalTimeElapsedInVideo(IterationFrame)
        matrices == buffers[bufferNames.matrixBuffer].data
        lights == buffers[bufferNames.lightToFrag].data
    IN  /\ pc \in {"draw", "swap", "poll", "readback", "save"} =>
               matrices = Transforms(vt)
        /\ pc \in {"swap", "poll", "readback", "save"} =>
               [i \in 1 .. 2 |-> LightFields(lights[i])]
                   = [i \in 1 .. 2 |-> LightFields(Lights(vt)[i])]

C4_Witness ==
    /\ pc = "swap" /\ totalFrame = 2
    /\ totalTimeElapsedInProgram(totalTime) # totalTimeElapsedInVideo(IterationFrame)
    /\ title.frame = 1

\* C5: the camera inputs of every draw are those of the session-start
\* configuration: the eye of the frame and the aspect ratio of the initial width
\* and height, whatever window-size events have occurred.
C5_CameraFromStartConfiguration ==
    \A i \in DOMAIN iterLog :
        iterLog[i].op = "glDrawArrays" =>
            iterLog[i].camera = CameraInputs(<<0, 8000, 8000>>, initialWidth, initialHeight)

\* C6: when a backend setup step has failed, the capture loop is never entered: no
\* renderScene, no dispatch, no frame export.
C6_SetupFailureIsFatal ==
    BackendSetupFailed =>
        /\ pc \notin LoopPcs \ {"loop"}
        /\ iterLog = <<>>
        /\ saveCalls = <<>>

\* C8: the GL calls of an iteration are one glDispatchCompute with 14 groups, then
\* one glDrawArrays, then the glReadPixels, in this order and each at most once;
\* when the frame is saved all three have happened; with a sound backend the
\* dispatch runs under the transform program and the draw under the draw program.
C8_DispatchThenDrawThenReadback ==
    LET ops == [i \in DOMAIN iterLog |-> iterLog[i].op]
        full == <<"glDispatchCompute", "glDrawArrays", "glReadPixels">>
    IN  /\ Len(ops) <= 3
        /\ ops = SubSeq(full, 1, Len(ops))
        /\ \A i \in DOMAIN iterLog :
               iterLog[i].op = "glDispatchCompute" => iterLog[i].groups = 14
        /\ pc = "draw" => Len(ops) = 1
        /\ pc \in {"swap", "poll", "readback"} => Len(ops) = 2
        /\ pc = "save" => Len(ops) = 3
        /\ ~BackendSetupFailed =>
               \A i \in DOMAIN iterLog :
                   /\ iterLog[i].op = "glDispatchCompute" =>
                          iterLog[i].program = "transform_program"
                   /\ iterLog[i].op = "glDrawArrays" =>
                          iterLog[i].program = "draw_program"

C8_Witness ==
    /\ pc = "save" /\ totalFrame = maxFrames /\ Len(iterLog) = 3
    /\ ~BackendSetupFailed

\* C9: from the end of init on, the mesh buffer is the one upload of init: its
\* size, both meshes and its upload count of one never change, while every
\* renderScene call uploads the transform buffer and the light buffer once each,
\* and nothing else is uploaded by the host.
C9_MeshBufferUploadedOnce ==
    pc \notin {"init_shaders", "init_buffers"} =>
        /\ buffers[bufferNames.triangleBuffer] =
               [size |-> triangleBufferSize, data |-> Meshes, uploads |-> 1]
        /\ buffers[bufferNames.compToFrag].uploads = 1
        /\ buffers[bufferNames.matrixBuffer].uploads =
               1 + totalFrame + (IF pc = "draw" THEN 1 ELSE 0)
        /\ buffers[bufferNames.lightToFrag].uploads = 1 + totalFrame

C9_Witness ==
    /\ pc = "done"
    /\ buffers[bufferNames.matrixBuffer].uploads = 1 + maxFrames
    /\ buffers[bufferNames.triangleBuffer].data[2].numTriangles = 12

\* C10: ffmpeg runs once, after the loop has exported all maxFrames frame images,
\* at the frame rate videoFPS, and the frames it reads from its start number on
\* are exactly the frame images on disk.
C10_MuxReadsEveryExportedFrame ==
    /\ Len(muxRuns) <= 1
    /\ pc = "done" => Len(muxRuns) = 1
    /\ \A i \in DOMAIN muxRuns :
           /\ Cardinality(files) = maxFrames
           /\ muxRuns[i].rate = videoFPS
           /\ Range(muxRuns[i].frames) = files

\* C11: a failure to create exportedFrames or to write a frame image is not
\* silent: main does not come to the ffmpeg step with one of the frames
\* 1 .. maxFrames missing on disk unless the program has reported the output
\* directory or that frame's file on its console.
C11_ExportFailureReported ==
    pc \in {"mux", "done"} =>
        \A n \in 1 .. maxFrames :
            n \notin files =>
                \E i \in DOMAIN console :
                    console[i].about \in {"exportedFrames", "frame image"}

\* C12: no pass works on stale per-frame state.  In the iteration that renders
\* frame index i the animation time is i / videoFPS, taken before totalFrame is
\* counted up; the matrices its glDispatchCompute finds in the transform buffer
\* are this iteration's upload of the transforms of that time; the light records
\* (padding aside) its glDrawArrays finds are this iteration's upload of the lights
\* of that time; the eye and the four corner rays the draw program holds at the
\* draw are the ones calcCameraRays computed in this iteration; and the camera
\* uniforms are only ever set in the draw program, while it is current.
C12_NoStaleFrameState ==
    LET vt == totalTimeElapsedInVideo(IterationFrame)
    IN  /\ uniforms["transform_program"] = NoCamera
        /\ pc \in {"transform", "draw", "swap", "poll", "readback", "save"} =>
               /\ time = vt
               /\ \A k \in DOMAIN iterLog :
                      LET e == iterLog[k]
                      IN  /\ e.op = "glDispatchCompute" =>
                                 /\ e.matrices = Transforms(vt)
                                 /\ buffers[bufferNames.matrixBuffer].uploads
                                        = IterationFrame + 2
                          /\ e.op = "glDrawArrays" =>
                                 /\ [j \in 1 .. 2 |-> LightFields(e.lights[j])]
                                        = [j \in 1 .. 2 |-> LightFields(Lights(vt)[j])]
                                 /\ buffers[bufferNames.lightToFrag].uploads
                                        = IterationFrame + 2
                                 /\ e.camera.eye = cameraPos
                                 /\ glDrawArrays(e.program) =>
                                        /\ currentProgram = "draw_program"
                                        /\ uniforms["draw_program"] =
                                               CameraRays(e.camera.eye, e.camera.center,
                                                          e.camera.up, e.camera.fov,
                                                          e.camera.ratio)

C12_Witness ==
    /\ pc = "save" /\ totalFrame = 2 /\ Len(iterLog) = 3
    /\ glDrawArrays(iterLog[2].program)
    /\ iterLog[1].program = "transform_program"
    /\ iterLog[1].matrices # Transforms(0)
    /\ iterLog[2].camera.ratio # AspectRatio(initialWidth, initialHeight)
    /\ uniforms["draw_program"] # NoCamera

\* C13: from the end of init on every buffer has the size of its contract: the
\* transform buffer that of 2 matrices, the light buffer that of 2 light
\* records, the mesh buffer that of 2 Mesh records and the compute-output buffer
\* that of 14 triangles (so every glBufferData call, of init and of renderScene,
\* was given the matching size).
C13_BuffersHaveContractSize ==
    pc \notin {"init_shaders", "init_buffers"} =>
        /\ buffers[bufferNames.matrixBuffer].size = 2 * SizeofMat4
        /\ buffers[bufferNames.lightToFrag].size = 2 * SizeofLight
        /\ buffers[bufferNames.triangleBuffer].size = 2 * SizeofMesh
        /\ buffers[bufferNames.compToFrag].size = 14 * SizeofTriangle

=============================================================================
